---- MODULE Spec2Model ----
(***************************************************************************)
(* Model of create_license.py: the third-party license report generator.   *)
(*                                                                         *)
(* The script runs `cargo bundle-licenses --format json`, parses its       *)
(* output, and for every library writes one block (heading, chosen         *)
(* license, license text) to THIRD_PARTY_LIBRARY_LICENSES, exiting with    *)
(* status 1 at the first library that has no license or no permissible     *)
(* license.  The model follows the script statement by statement; the      *)
(* file on disk survives the process, so the script can be invoked again.  *)
(***************************************************************************)
EXTENDS Naturals, Sequences, FiniteSets, TLC

(***************************************************************************)
(* Bounds of the model.                                                    *)
(***************************************************************************)
\* Largest number of libraries in the tool's output.
MaxLibs == 2
\* Largest number of license entries of one library.
MaxLicenses == 2

(***************************************************************************)
(* The data the external tool can emit.                                    *)
(***************************************************************************)
PackageNames == {"foo", "bar"}

\* "Apache-2.0" is not permissible under the allow-list of the source
\* (['MIT']) and is permissible under the extended one.
LicenseIds == {"MIT", "Apache-2.0"}

\* The text of a license entry is copied and never inspected, so one text per
\* position in the library's list is enough to tell the entries apart.
TextAt(k) == "LICENSE TEXT " \o ToString(k)

LicenseLists ==
    UNION { { [k \in 1..n |-> [license |-> ids[k], text |-> TextAt(k)]] :
                ids \in [1..n -> LicenseIds] } : n \in 0..MaxLicenses }

Libs == [package_name : PackageNames, licenses : LicenseLists]

\* Every value of bundle_licenses['third_party_libraries'].  Output of the
\* tool that parses as JSON has the tool's documented shape: an object with
\* this key, holding objects with package_name and licenses.
LibLists == UNION { [1..n -> Libs] : n \in 0..MaxLibs }

\* permissible_licenses ("ordered list"): the list of the source and the
\* list extended with a higher-priority identifier.
PermissibleLists == { <<"MIT">>, <<"Apache-2.0", "MIT">> }

\* What THIRD_PARTY_LIBRARY_LICENSES may hold before the first invocation:
\* nothing, or content that is not the script's.
StaleContents == { <<>>, <<"stale\n">> }

(***************************************************************************)
(* State.                                                                  *)
(***************************************************************************)
VARIABLES
    project,               \* the libraries cargo bundle-licenses reports
    permissible_licenses,  \* line 6
    pc,                    \* position of the process in the script
    result,                \* subprocess.run's result (line 8)
    bundle_licenses,       \* json.loads' value (line 10)
    disk,                  \* content of THIRD_PARTY_LIBRARY_LICENSES,
                           \* one element per write
    f,                     \* the file object: "unopened", "open", "closed"
    i,                     \* libraries the for loop has finished with
    stderr,                \* lines written to sys.stderr
    exit_status,           \* process exit status, NoStatus while running
    invocations,           \* times subprocess.run was called in this run
    opens,                 \* times open() was called in this run
    examined,              \* libraries the loop body has started on
    before,                \* content of the file when this run started
    previous               \* outcome of the preceding run, or NoRun

vars == << project, permissible_licenses, pc, result, bundle_licenses, disk,
           f, i, stderr, exit_status, invocations, opens, examined, before,
           previous >>

NoStatus == "running"
NoRun == [ran |-> FALSE]
NoResult == [returncode |-> "none", stdout |-> "none"]

(***************************************************************************)
(* Formatting (the string literals and f-strings of the source).           *)
(***************************************************************************)
Header == "# Thiard party library licenses\n\n"
Heading(package_name) == "## " \o package_name \o "\n\n"
LicenseLine(package_license) == package_license \o "\n\n"
TextLines(license_text) == license_text \o "\n\n\n"

NoLicensesMsg(package_name) ==
    "Error: " \o package_name \o " has no licenses"
\* Variant: the message does not name the package.
NoPermissibleMsgAnonymous(package_name) ==
    "Error: a package has no permissible licenses"
NoPermissibleMsg(package_name) ==
    "Error: " \o package_name \o " has no permissible licenses"

\* What the interpreter prints for an exception nobody catches.
Traceback(exception) == "Traceback (most recent call last): " \o exception

(***************************************************************************)
(* Pure parts of the loop body.                                            *)
(***************************************************************************)
\* list(filter(lambda x: x['license'] == p, licenses))
Filter(licenses, p) == SelectSeq(licenses, LAMBDA x : x.license = p)

\* The for loop over permissible_licenses, started at index j: the first
\* identifier with a non-empty filter result decides, and its first entry
\* is taken.
RECURSIVE SelectFrom(_, _, _)
SelectFrom(licenses, permissible, j) ==
    IF j > Len(permissible)
    THEN [package_license |-> "", license_text |-> ""]
    ELSE LET l == Filter(licenses, permissible[j])
         IN  IF l # <<>>
             THEN [package_license |-> l[1].license,
                   license_text |-> l[1].text]
             ELSE SelectFrom(licenses, permissible, j + 1)

\* Variant: of the entries with the deciding identifier the last is taken.
RECURSIVE SelectLastEntry(_, _, _)
SelectLastEntry(licenses, permissible, j) ==
    IF j > Len(permissible)
    THEN [package_license |-> "", license_text |-> ""]
    ELSE LET l == Filter(licenses, permissible[j])
         IN  IF l # <<>>
             THEN [package_license |-> l[Len(l)].license,
                   license_text |-> l[Len(l)].text]
             ELSE SelectLastEntry(licenses, permissible, j + 1)
SelectLast(licenses, permissible) == SelectLastEntry(licenses, permissible, 1)

\* Variant: the loops are nested the other way round, so the library's
\* first permissible entry decides.
SelectFirstListed(licenses, permissible) ==
    LET ok == SelectSeq(licenses,
                        LAMBDA x : \E j \in 1..Len(permissible) :
                                       x.license = permissible[j])
    IN  IF ok = <<>>
        THEN [package_license |-> "", license_text |-> ""]
        ELSE [package_license |-> ok[1].license, license_text |-> ok[1].text]

Select(licenses, permissible) == SelectFrom(licenses, permissible, 1)

\* The three writes that end an iteration.
Block(package_name, sel) ==
    << Heading(package_name),
       LicenseLine(sel.package_license),
       TextLines(sel.license_text) >>

\* Variant: mode='a'.
TruncateNot(content) == content

\* open(..., mode='w') on a file holding `content`.
Truncate(content) == <<>>

(***************************************************************************)
(* Initial state: a process about to execute line 8.                       *)
(***************************************************************************)
Init ==
    /\ project \in LibLists
    /\ permissible_licenses \in PermissibleLists
    /\ disk \in StaleContents
    /\ before = disk
    /\ pc = "run"
    /\ result = NoResult
    /\ bundle_licenses = <<>>
    /\ f = "unopened"
    /\ i = 0
    /\ stderr = <<>>
    /\ exit_status = NoStatus
    /\ invocations = 0
    /\ opens = 0
    /\ examined = 0
    /\ previous = NoRun

(***************************************************************************)
(* Process termination.                                                    *)
(***************************************************************************)
\* Variant: the file is opened without a with block.
ClosedNever(file) == file

\* An exception or SystemExit leaving the with block closes the file.
Closed(file) == IF file = "open" THEN "closed" ELSE file

\* An uncaught exception: traceback on stderr, exit status 1.
Raise(exception) ==
    /\ stderr' = Append(stderr, Traceback(exception))
    /\ exit_status' = 1
    /\ f' = Closed(f)
    /\ pc' = "exited"

\* print(msg, file=sys.stderr); sys.exit(1)
ErrorExit(msg) ==
    /\ stderr' = Append(stderr, msg)
    /\ exit_status' = 1
    /\ f' = Closed(f)
    /\ pc' = "exited"

(***************************************************************************)
(* The statements of the script.                                           *)
(***************************************************************************)
\* Lines 8-9: subprocess.run(..., capture_output=True, check=True).  The
\* tool exits 0 with the project's libraries as JSON, exits 0 with output
\* that is not JSON, or exits non-zero (check=True raises).
RunSubprocess ==
    /\ pc = "run"
    /\ invocations' = invocations + 1
    /\ \/ /\ result' = [returncode |-> 0, stdout |-> "json"]
          /\ pc' = "loads"
          /\ UNCHANGED << stderr, exit_status, f >>
       \/ /\ result' = [returncode |-> 0, stdout |-> "garbage"]
          /\ pc' = "loads"
          /\ UNCHANGED << stderr, exit_status, f >>
       \/ /\ result' = [returncode |-> 101, stdout |-> ""]
          /\ Raise("subprocess.CalledProcessError")
    /\ UNCHANGED << project, permissible_licenses, bundle_licenses, disk, i,
                    opens, examined, before, previous >>

\* Line 10: json.loads(result.stdout).
JsonLoads ==
    /\ pc = "loads"
    /\ \/ /\ result.stdout = "json"
          /\ bundle_licenses' = project
          /\ pc' = "open"
          /\ UNCHANGED << stderr, exit_status, f >>
       \/ /\ result.stdout # "json"
          /\ Raise("json.JSONDecodeError")
          /\ UNCHANGED bundle_licenses
    /\ UNCHANGED << project, permissible_licenses, result, disk, i,
                    invocations, opens, examined, before, previous >>

\* Line 11: with open('THIRD_PARTY_LIBRARY_LICENSES', mode='w') as f.
Open ==
    /\ pc = "open"
    /\ disk' = Truncate(disk)
    /\ f' = "open"
    /\ opens' = opens + 1
    /\ pc' = "header"
    /\ UNCHANGED << project, permissible_licenses, result, bundle_licenses, i,
                    stderr, exit_status, invocations, examined, before,
                    previous >>

\* Line 12: f.write('# Thiard party library licenses\n\n').
WriteHeader ==
    /\ pc = "header"
    /\ disk' = Append(disk, Header)
    /\ pc' = "loop"
    /\ UNCHANGED << project, permissible_licenses, result, bundle_licenses, f,
                    i, stderr, exit_status, invocations, opens, examined,
                    before, previous >>

\* Variant: `continue` where the source has sys.exit(1).
IterationSkip(lib) ==
    LET package_name == lib.package_name
        licenses == lib.licenses
        sel == Select(licenses, permissible_licenses)
    IN  IF Len(licenses) = 0
        THEN /\ stderr' = Append(stderr, NoLicensesMsg(package_name))
             /\ i' = i + 1
             /\ UNCHANGED << disk, exit_status, f, pc >>
        ELSE IF sel.package_license = ""
        THEN /\ stderr' = Append(stderr, NoPermissibleMsg(package_name))
             /\ i' = i + 1
             /\ UNCHANGED << disk, exit_status, f, pc >>
        ELSE /\ disk' = disk \o Block(package_name, sel)
             /\ i' = i + 1
             /\ UNCHANGED << stderr, exit_status, f, pc >>

\* Variant: no test for an empty license list.
IterationNoEmptyTest(lib) ==
    LET package_name == lib.package_name
        licenses == lib.licenses
        sel == Select(licenses, permissible_licenses)
    IN  IF sel.package_license = ""
        THEN /\ ErrorExit(NoPermissibleMsg(package_name))
             /\ UNCHANGED << disk, i >>
        ELSE /\ disk' = disk \o Block(package_name, sel)
             /\ i' = i + 1
             /\ UNCHANGED << stderr, exit_status, f, pc >>

\* Variant: sys.exit(0) after the diagnostic.
IterationExitZero(lib) ==
    LET package_name == lib.package_name
        licenses == lib.licenses
        sel == Select(licenses, permissible_licenses)
        msg == IF Len(licenses) = 0 THEN NoLicensesMsg(package_name)
                                    ELSE NoPermissibleMsg(package_name)
    IN  IF Len(licenses) = 0 \/ sel.package_license = ""
        THEN /\ stderr' = Append(stderr, msg)
             /\ exit_status' = 0
             /\ f' = Closed(f)
             /\ pc' = "exited"
             /\ UNCHANGED << disk, i >>
        ELSE /\ disk' = disk \o Block(package_name, sel)
             /\ i' = i + 1
             /\ UNCHANGED << stderr, exit_status, f, pc >>

\* Variant: the block is inserted right after the header.
IterationPrepend(lib) ==
    LET package_name == lib.package_name
        licenses == lib.licenses
        sel == Select(licenses, permissible_licenses)
    IN  IF Len(licenses) = 0
        THEN /\ ErrorExit(NoLicensesMsg(package_name))
             /\ UNCHANGED << disk, i >>
        ELSE IF sel.package_license = ""
        THEN /\ ErrorExit(NoPermissibleMsg(package_name))
             /\ UNCHANGED << disk, i >>
        ELSE /\ disk' = << Head(disk) >> \o Block(package_name, sel)
                            \o Tail(disk)
             /\ i' = i + 1
             /\ UNCHANGED << stderr, exit_status, f, pc >>

\* Variant: the heading is written before the library is validated.
IterationHeadingFirst(lib) ==
    LET package_name == lib.package_name
        licenses == lib.licenses
        sel == Select(licenses, permissible_licenses)
    IN  IF Len(licenses) = 0
        THEN /\ ErrorExit(NoLicensesMsg(package_name))
             /\ disk' = Append(disk, Heading(package_name))
             /\ UNCHANGED i
        ELSE IF sel.package_license = ""
        THEN /\ ErrorExit(NoPermissibleMsg(package_name))
             /\ disk' = Append(disk, Heading(package_name))
             /\ UNCHANGED i
        ELSE /\ disk' = disk \o Block(package_name, sel)
             /\ i' = i + 1
             /\ UNCHANGED << stderr, exit_status, f, pc >>

\* Lines 14-35: one iteration of the for loop, on library i + 1.
Iteration(lib) ==
    LET package_name == lib.package_name
        licenses == lib.licenses
        sel == Select(licenses, permissible_licenses)
    IN  IF Len(licenses) = 0
        THEN /\ ErrorExit(NoLicensesMsg(package_name))
             /\ UNCHANGED << disk, i >>
        ELSE IF sel.package_license = ""
        THEN /\ ErrorExit(NoPermissibleMsg(package_name))
             /\ UNCHANGED << disk, i >>
        ELSE /\ disk' = disk \o Block(package_name, sel)
             /\ i' = i + 1
             /\ UNCHANGED << stderr, exit_status, f, pc >>

\* Line 13 with the loop body.
ProcessLib ==
    /\ pc = "loop"
    /\ i < Len(bundle_licenses)
    /\ examined' = examined + 1
    /\ Iteration(bundle_licenses[i + 1])
    /\ UNCHANGED << project, permissible_licenses, result, bundle_licenses,
                    invocations, opens, before, previous >>

\* The loop is exhausted: the with block closes the file and the script
\* ends, exit status 0.
Finish ==
    /\ pc = "loop"
    /\ i = Len(bundle_licenses)
    /\ f' = Closed(f)
    /\ exit_status' = 0
    /\ pc' = "exited"
    /\ UNCHANGED << project, permissible_licenses, result, bundle_licenses,
                    disk, i, stderr, invocations, opens, examined, before,
                    previous >>

\* The script is invoked a second time in the same directory, on the same
\* project: a fresh process that finds the file the first run left.
RunAgain ==
    /\ pc = "exited"
    /\ previous = NoRun
    /\ previous' = [ran |-> TRUE, result |-> result, disk |-> disk,
                    exit_status |-> exit_status, stderr |-> stderr]
    /\ before' = disk
    /\ pc' = "run"
    /\ result' = NoResult
    /\ bundle_licenses' = <<>>
    /\ f' = "unopened"
    /\ i' = 0
    /\ stderr' = <<>>
    /\ exit_status' = NoStatus
    /\ invocations' = 0
    /\ opens' = 0
    /\ examined' = 0
    /\ UNCHANGED << project, permissible_licenses, disk >>

Next ==
    \/ RunSubprocess
    \/ JsonLoads
    \/ Open
    \/ WriteHeader
    \/ ProcessLib
    \/ Finish
    \/ RunAgain

Spec == Init /\ [][Next]_vars

(***************************************************************************)
(* Reading a report back, and what the specification expects of it.        *)
(* These definitions do not use Filter, Select or Block.                   *)
(***************************************************************************)
Range(s) == { s[k] : k \in 1..Len(s) }
Min(S) == CHOOSE m \in S : \A n \in S : m <= n

\* What this run has put into the file so far.
Written == IF f = "unopened" THEN <<>> ELSE disk

\* The tool ran and its output parsed.
Parsed == result.returncode = 0 /\ result.stdout = "json"

\* A report: the header and then whole blocks of three writes.
WellFormed(file) ==
    /\ Len(file) >= 1
    /\ file[1] = Header
    /\ (Len(file) - 1) % 3 = 0
NumBlocks(file) == IF Len(file) = 0 THEN 0 ELSE (Len(file) - 1) \div 3

\* The package names and identifiers a write can stand for.
NamesOf(chunk) == { n \in PackageNames : chunk = "## " \o n \o "\n\n" }
IdsOf(chunk) == { id \in LicenseIds \cup {""} : chunk = id \o "\n\n" }

HeadingOf(file, k) == file[3 * k - 1]
LicenseOf(file, k) == file[3 * k]
TextOf(file, k) == file[3 * k + 1]

\* The library has a license on the allow-list.
Valid(lib) ==
    \E k \in 1..Len(lib.licenses) :
        lib.licenses[k].license \in Range(permissible_licenses)

\* Index of the first invalid library, 0 when there is none.
FirstInvalid(libs) ==
    LET bad == { k \in 1..Len(libs) : ~Valid(libs[k]) }
    IN  IF bad = {} THEN 0 ELSE Min(bad)

\* The allow-listed identifier of lowest allow-list index among the
\* library's licenses, and the first entry of the library with it.
Preferred(lib) ==
    permissible_licenses[
        Min({ j \in 1..Len(permissible_licenses) :
                \E k \in 1..Len(lib.licenses) :
                    lib.licenses[k].license = permissible_licenses[j] })]
FirstWith(lib, id) ==
    lib.licenses[Min({ k \in 1..Len(lib.licenses) :
                         lib.licenses[k].license = id })]

\* The report for the first n libraries, all of them valid.
RECURSIVE Expected(_, _)
Expected(libs, n) ==
    IF n = 0
    THEN << "# Thiard party library licenses\n\n" >>
    ELSE Expected(libs, n - 1) \o
         << "## " \o libs[n].package_name \o "\n\n",
            Preferred(libs[n]) \o "\n\n",
            FirstWith(libs[n], Preferred(libs[n])).text \o "\n\n\n" >>

IsPackageError(line) ==
    \E n \in PackageNames :
        \/ line = "Error: " \o n \o " has no licenses"
        \/ line = "Error: " \o n \o " has no permissible licenses"

Exited == pc = "exited"
Names(libs, n) == [k \in 1..n |-> libs[k].package_name]

(***************************************************************************)
(* The claims.                                                             *)
(***************************************************************************)

\* C1: when a run ends with exit status 0, every block of the report
\* carries exactly one license identifier, that identifier is on the
\* allow-list and is the identifier of one of the library's own entries,
\* and the text written with it is the text of the first entry of the
\* library's list that has that identifier.
C1_ChosenLicense ==
    (Exited /\ exit_status = 0) =>
        /\ WellFormed(disk)
        /\ NumBlocks(disk) = Len(bundle_licenses)
        /\ \A k \in 1..NumBlocks(disk) :
            LET lib == bundle_licenses[k]
                ids == IdsOf(LicenseOf(disk, k))
            IN  /\ Cardinality(ids) = 1
                /\ \A id \in ids :
                    /\ id \in Range(permissible_licenses)
                    /\ \E e \in 1..Len(lib.licenses) :
                           lib.licenses[e].license = id
                    /\ TextOf(disk, k) = FirstWith(lib, id).text \o "\n\n\n"

\* A successful run wrote a block for a library that lists the chosen
\* identifier twice, with different texts.
C1_Witness ==
    /\ Exited /\ exit_status = 0
    /\ \E k \in 1..Len(bundle_licenses) :
        LET ls == bundle_licenses[k].licenses
        IN  /\ Len(ls) >= 2
            /\ ls[1].license = ls[2].license
            /\ ls[1].text # ls[2].text
            /\ LicenseOf(disk, k) = ls[1].license \o "\n\n"

\* C2: for every library with an allow-listed license, the license written
\* is the allow-listed identifier of lowest allow-list index among the
\* library's licenses, whatever the order of the library's own list.
C2_LowestAllowListIndex ==
    (f # "unopened" /\ pc \in {"loop", "exited"}) =>
        /\ NumBlocks(disk) = i
        /\ \A k \in 1..i :
            /\ Valid(bundle_licenses[k])
            /\ LicenseOf(disk, k) = Preferred(bundle_licenses[k]) \o "\n\n"

\* Allow-list [Apache-2.0, MIT], a library listing MIT and then Apache-2.0:
\* Apache-2.0 was written.
C2_Witness ==
    /\ permissible_licenses = << "Apache-2.0", "MIT" >>
    /\ i >= 1
    /\ Len(bundle_licenses[1].licenses) = 2
    /\ bundle_licenses[1].licenses[1].license = "MIT"
    /\ bundle_licenses[1].licenses[2].license = "Apache-2.0"
    /\ LicenseOf(disk, 1) = "Apache-2.0\n\n"

C4_NoLicenses ==
    LET k == FirstInvalid(bundle_licenses)
    IN  (Exited /\ Parsed /\ k > 0 /\ bundle_licenses[k].licenses = <<>>) =>
            /\ exit_status = 1
            /\ stderr = << "Error: " \o bundle_licenses[k].package_name
                             \o " has no licenses" >>
            /\ examined = k
            /\ Len(Written) = 1 + 3 * (k - 1)

\* The run failed on a library without licenses that is followed by another
\* library.
C4_Witness ==
    LET k == FirstInvalid(bundle_licenses)
    IN  /\ Exited /\ Parsed
        /\ k > 0 /\ k < Len(bundle_licenses)
        /\ bundle_licenses[k].licenses = <<>>
        /\ exit_status = 1

\* C5: when the first invalid library has licenses but none on the
\* allow-list, the run ends with exit status 1, the only diagnostic is
\* 'Error: <package_name> has no permissible licenses' with that library's
\* name, and no block is written for it.
C5_NoPermissibleLicenses ==
    LET k == FirstInvalid(bundle_licenses)
    IN  (Exited /\ Parsed /\ k > 0 /\ bundle_licenses[k].licenses # <<>>) =>
            /\ exit_status = 1
            /\ stderr = << "Error: " \o bundle_licenses[k].package_name
                             \o " has no permissible licenses" >>
            /\ Len(Written) = 1 + 3 * (k - 1)
            /\ \A b \in 1..NumBlocks(Written) : b < k

\* The run failed on a library whose only licenses are not allow-listed,
\* after writing a block for the library before it.
C5_Witness ==
    LET k == FirstInvalid(bundle_licenses)
    IN  /\ Exited /\ Parsed
        /\ k = 2
        /\ Len(bundle_licenses[k].licenses) = 2
        /\ exit_status = 1

\* C6: once the tool succeeded and its output parsed, the exit status is 0
\* exactly if every library has a license on the allow-list, and 1
\* otherwise; with no library at all it is 0 and the report is the header.
C6_ExitStatus ==
    (Exited /\ Parsed) =>
        /\ exit_status \in {0, 1}
        /\ exit_status = 0 <=>
               \A k \in 1..Len(bundle_licenses) : Valid(bundle_licenses[k])
        /\ bundle_licenses = <<>> =>
               /\ exit_status = 0
               /\ disk = << "# Thiard party library licenses\n\n" >>

\* A run without libraries ended with status 0 over stale content.
C6_Witness ==
    /\ Exited /\ Parsed
    /\ bundle_licenses = <<>>
    /\ before # <<>>
    /\ exit_status = 0

\* C7: the package names of the report's blocks are, in order and with
\* multiplicity, those of the libraries processed before any failure exit;
\* after a successful run they are those of the whole input.
C7_PackageNamesInOrder ==
    (f # "unopened" /\ pc \in {"loop", "exited"}) =>
        LET k == FirstInvalid(bundle_licenses)
            n == NumBlocks(disk)
        IN  /\ WellFormed(disk)
            /\ n <= Len(bundle_licenses)
            /\ \A b \in 1..n :
                NamesOf(HeadingOf(disk, b)) =
                    { bundle_licenses[b].package_name }
            /\ (Exited /\ exit_status = 0) => n = Len(bundle_licenses)
            /\ (Exited /\ exit_status # 0) => n = k - 1

\* A successful run on two libraries of different names.
C7_Witness ==
    /\ Exited /\ exit_status = 0
    /\ Len(bundle_licenses) = 2
    /\ bundle_licenses[1].package_name # bundle_licenses[2].package_name
    /\ NumBlocks(disk) = 2

\* C8: a second run with the same tool output and allow-list leaves the
\* same file content, exit status and diagnostics as the first, whatever
\* the file held before either run.
C8_SecondRunIdentical ==
    (Exited /\ previous.ran /\ result = previous.result) =>
        /\ disk = previous.disk
        /\ exit_status = previous.exit_status
        /\ stderr = previous.stderr

\* The second run ended after rewriting a file that held the first run's
\* report with a block in it.
C8_Witness ==
    /\ Exited /\ previous.ran /\ Parsed
    /\ result = previous.result
    /\ Len(before) >= 4
    /\ f = "closed"

\* C9: when library k is the first invalid one, the file at exit is the
\* header followed by the complete blocks of libraries 1..k-1 in order and
\* nothing else, and exactly one diagnostic was emitted, naming library k.
C9_FailFast ==
    LET k == FirstInvalid(bundle_licenses)
    IN  (Exited /\ Parsed /\ k > 0) =>
            /\ disk = Expected(bundle_licenses, k - 1)
            /\ Len(stderr) = 1
            /\ \/ stderr[1] = "Error: " \o bundle_licenses[k].package_name
                                \o " has no licenses"
               \/ stderr[1] = "Error: " \o bundle_licenses[k].package_name
                                \o " has no permissible licenses"

\* The run failed on the first of two invalid libraries of different names.
C9_Witness ==
    /\ Exited /\ Parsed
    /\ Len(bundle_licenses) = 2
    /\ ~Valid(bundle_licenses[1]) /\ ~Valid(bundle_licenses[2])
    /\ bundle_licenses[1].package_name # bundle_licenses[2].package_name
    /\ Len(stderr) = 1

\* C10: the tool is invoked exactly once per run; if it exits non-zero or
\* its output is not JSON, the run ends before the file is opened, the file
\* is as it was and no 'Error: <package_name> ...' diagnostic is emitted;
\* on the other exit paths the file was opened exactly once and is closed.
C10_ToolFailureBeforeOpen ==
    /\ invocations <= 1
    /\ pc # "run" => invocations = 1
    /\ opens <= 1
    /\ (Exited /\ ~Parsed) =>
           /\ opens = 0
           /\ f = "unopened"
           /\ disk = before
           /\ \A n \in 1..Len(stderr) : ~IsPackageError(stderr[n])
    /\ (Exited /\ Parsed) =>
           /\ opens = 1
           /\ f = "closed"

\* The tool failed over a file with content.
C10_Witness ==
    /\ Exited /\ ~Parsed
    /\ before # <<>>
    /\ disk = before

====
